---- MODULE Spec2Model ----
(***************************************************************************)
(* Control-plane message engine of cloud-connector: the MQTT control       *)
(* message handler (HandleControlMessage) and the connection-status        *)
(* handshake it drives (handleOnlineMessage / handleOfflineMessage),       *)
(* run by the handler goroutines of the MQTT client.                       *)
(***************************************************************************)
EXTENDS Integers, Sequences, FiniteSets, TLC

\* ------------------------------------------------------------------ bounds

\* Number of inbound frames delivered in one run.
MaxFrames == 2

\* Number of times the broker connection is established in one run.
MaxConnects == 2

\* Handler goroutines that may run at the same time; the first one is the
\* router goroutine that calls the handlers one after another when the MQTT
\* client delivers in order.
Workers == {"w1", "w2"}
RouterWorker == "w1"

Clients == {"abc", "xyz"}

\* ------------------------------------------------------------ constants

canonicalFactsKey == "canonical_facts"
dispatchersKey == "dispatchers"
catalogDispatcherKey == "catalog"
catalogApplicationType == "ApplicationType"
catalogSourceName == "SrcName"
catalogSourceRef == "SourceRef"
catalogSourceType == "SrcType"
playbookWorkerDispatcherKey == "rhc-worker-playbook"

\* ---------------------------------------------------------------- topics

TopicPrefix == "redhat/insights"

\* A topic is <prefix>/<clientID>/<kind>/<direction>, kept as its segments.
MkTopic(prefix, clientID, kind, dir) ==
    [prefix |-> prefix, clientID |-> clientID, kind |-> kind, dir |-> dir]

InControlTopic(c) == MkTopic(TopicPrefix, c, "control", "in")

Topics ==
    {InControlTopic(c) : c \in Clients} \cup {MkTopic("other/prefix", "abc", "control", "in")}

\* TopicVerifier.VerifyIncomingTopic: (topicType, clientID, err).
VerifyIncomingTopic(topic) ==
    IF /\ topic.prefix = TopicPrefix
       /\ topic.clientID # ""
       /\ topic.kind \in {"control", "data"}
       /\ topic.dir = "in"
    THEN [topicType |-> topic.kind, clientID |-> topic.clientID, err |-> FALSE]
    ELSE [topicType |-> "unknown", clientID |-> "", err |-> TRUE]

\* TopicBuilder.BuildOutgoingControlTopic.
BuildOutgoingControlTopic(clientID) == MkTopic(TopicPrefix, clientID, "control", "out")

\* -------------------------------------------------------------- payloads

\* The keys a catalog dispatcher may carry on the wire.
CatalogKeys == {"ApplicationType", "SrcName", "SrcRef", "SourceRef", "SrcType"}

\* The string a catalog key carries when it is present as a JSON string.
FieldValue(k) ==
    CASE k = "ApplicationType" -> "A"
      [] k = "SrcName" -> "N"
      [] k = "SrcRef" -> "R"
      [] k = "SourceRef" -> "SR"
      [] k = "SrcType" -> "T"

\* A catalog object with the keys of S present as strings, those of Num
\* present as JSON numbers, and the others absent.
CatalogFields(S, Num) ==
    [k \in CatalogKeys |->
        IF k \in Num THEN "#number" ELSE IF k \in S THEN FieldValue(k) ELSE "absent"]

NoFields == CatalogFields({}, {})

SpecFour == {"ApplicationType", "SrcName", "SrcRef", "SrcType"}
CodeFour == {catalogApplicationType, catalogSourceName, catalogSourceRef, catalogSourceType}

\* A control payload after json.Unmarshal into ControlMessage, Content being
\* the generic value (map[string]interface{} for a JSON object):
\*   raw             "empty" | "malformed" | "json"
\*   MessageType     the envelope's MessageType
\*   Content         JSON kind of Content: "object" or a non-object kind
\*   state           Content["state"]: "absent" or its value
\*   canonical_facts Content["canonical_facts"]: "absent" or its JSON kind
\*   dispatchers     Content["dispatchers"]: "absent" or its JSON kind
\*   playbook        dispatchers has the key rhc-worker-playbook
\*   catalog         dispatchers["catalog"]: "absent" or its JSON kind
\*   fields          the catalog object's keys
\*   client_id       Content["client_id"]: "absent" or the client ID the
\*                   sender put into its payload
BasePayload ==
    [raw |-> "json", MessageType |-> "connection-status", Content |-> "object",
     state |-> "online", canonical_facts |-> "absent", dispatchers |-> "absent",
     playbook |-> FALSE, catalog |-> "absent", fields |-> NoFields, client_id |-> "absent"]

EmptyPayload == [BasePayload EXCEPT !.raw = "empty", !.MessageType = "", !.Content = "null", !.state = "absent"]
MalformedPayload == [BasePayload EXCEPT !.raw = "malformed", !.MessageType = "", !.Content = "null", !.state = "absent"]

Online(facts, disp, playbook, catalog, fields) ==
    [BasePayload EXCEPT !.canonical_facts = facts, !.dispatchers = disp,
                        !.playbook = playbook, !.catalog = catalog, !.fields = fields]

OfflinePayload == [BasePayload EXCEPT !.state = "offline"]

\* The shapes of a catalog object that the handshake tells apart.
CatalogShapes ==
    {NoFields, CatalogFields(SpecFour, {}), CatalogFields(CodeFour, {}),
     CatalogFields(CatalogKeys, {}), CatalogFields(CodeFour, {"SrcName"})}
    \cup {CatalogFields(CodeFour \ {k}, {}) : k \in CodeFour}

\* Online payloads: the combinations of the optional keys; the catalog
\* shapes are gone through in full for a host that passes the inventory gate.
OnlinePayloads ==
    {Online(f, "absent", FALSE, "absent", NoFields) : f \in {"absent", "object", "null"}}
    \cup {Online(f, "null", FALSE, "absent", NoFields) : f \in {"absent", "object"}}
    \cup {Online(f, "object", pb, "absent", NoFields) : f \in {"absent", "object"}, pb \in BOOLEAN}
    \cup {Online("object", "object", pb, "string", NoFields) : pb \in BOOLEAN}
    \cup {Online("absent", "object", FALSE, "object", CatalogFields(s, {})) : s \in {{}, SpecFour, CodeFour}}
    \cup {Online("object", "object", TRUE, "object", s) : s \in CatalogShapes}

\* Payloads that never start an online handshake.
OtherPayloads ==
    {EmptyPayload, MalformedPayload, OfflinePayload,
     [BasePayload EXCEPT !.MessageType = "event"],
     [BasePayload EXCEPT !.MessageType = "control"],
     [BasePayload EXCEPT !.Content = "null", !.state = "absent"],
     [BasePayload EXCEPT !.Content = "string", !.state = "absent"],
     [BasePayload EXCEPT !.state = "absent"],
     [BasePayload EXCEPT !.state = "bogus"]}

\* Payloads that name a client themselves.
ForeignIdPayloads ==
    {[BasePayload EXCEPT !.client_id = "xyz"],
     [OfflinePayload EXCEPT !.client_id = "xyz"]}

Payloads == OnlinePayloads \cup OtherPayloads \cup ForeignIdPayloads

\* The payloads delivered to concurrently running handlers.
CorePayloads ==
    {OfflinePayload,
     Online("absent", "absent", FALSE, "absent", NoFields),
     Online("object", "object", TRUE, "object", CatalogFields(CodeFour, {}))}

\* The topics of the frames delivered to concurrently running handlers.
CoreTopics == {InControlTopic(c) : c \in Clients}

\* The frames delivered in order: every payload on the clients' control
\* topics and, since a frame whose topic fails verification is dropped before
\* its payload is looked at, a few payloads on the other topics.
OrderedFrames ==
    {[topic |-> t, payload |-> p] : t \in CoreTopics, p \in Payloads}
    \cup {[topic |-> t, payload |-> p] : t \in Topics \ CoreTopics, p \in CorePayloads}

\* ------------------------------------------------- handshake decisions

doesHostHaveCanonicalFacts(handshakePayload) ==
    handshakePayload.canonical_facts # "absent"

\* "true" / "false", or "panic" when the type assertion on dispatchers fails.
doesHostHavePlaybookWorker(handshakePayload) ==
    IF handshakePayload.dispatchers = "absent" THEN "false"
    ELSE IF handshakePayload.dispatchers # "object" THEN "panic"
    ELSE IF handshakePayload.playbook THEN "true" ELSE "false"

\* Mutant: the inventory gate forgets the canonical_facts check.
shouldHostBeRegisteredWithInventory_playbookOnly(handshakePayload) ==
    doesHostHavePlaybookWorker(handshakePayload)

\* && evaluates its right operand only when the left one is true.
shouldHostBeRegisteredWithInventory(handshakePayload) ==
    IF doesHostHaveCanonicalFacts(handshakePayload)
    THEN doesHostHavePlaybookWorker(handshakePayload)
    ELSE "false"

\* The arguments processDispatchers reads from the catalog, in call order:
\* sourceRef, sourceName, sourceType, applicationType.
catalogArguments(handshakePayload) ==
    << handshakePayload.fields[catalogSourceRef],
       handshakePayload.fields[catalogSourceName],
       handshakePayload.fields[catalogSourceType],
       handshakePayload.fields[catalogApplicationType] >>

\* What processDispatchers does before it reaches the sources recorder:
\* "skip" (return), "panic" (a failed type assertion) or "call".
processDispatchersDecision(handshakePayload) ==
    LET args == catalogArguments(handshakePayload) IN
    IF handshakePayload.dispatchers = "absent" THEN "skip"
    ELSE IF handshakePayload.dispatchers # "object" THEN "panic"
    ELSE IF handshakePayload.catalog = "absent" THEN "skip"
    ELSE IF handshakePayload.catalog # "object" THEN "panic"
    ELSE IF \E i \in 1..4 : args[i] = "absent" THEN "skip"
    ELSE IF \E i \in 1..4 : args[i] = "#number" THEN "panic"
    ELSE "call"

\* Mutant: any state other than offline is handled as online.
connectionStatusBranch_lenient(msg) ==
    IF msg.Content # "object" THEN "panic"
    ELSE IF msg.state = "absent" THEN "invalid"
    ELSE IF msg.state = "offline" THEN "offline"
    ELSE "online"

\* handleConnectionStatusMessage: the handler the frame goes to, "invalid"
\* (return an error) or "panic" (the type assertion on Content fails).
connectionStatusBranch(msg) ==
    IF msg.Content # "object" THEN "panic"
    ELSE IF msg.state = "absent" THEN "invalid"
    ELSE IF msg.state = "online" THEN "online"
    ELSE IF msg.state = "offline" THEN "offline"
    ELSE "invalid"

\* Mutant: every decodable envelope is handled as a connection-status message.
controlBranch_anyType(topic, payload) ==
    IF VerifyIncomingTopic(topic).err THEN "drop"
    ELSE IF payload.raw = "empty" THEN "drop"
    ELSE IF payload.raw = "malformed" THEN "drop"
    ELSE connectionStatusBranch(payload)

\* HandleControlMessage up to the handler it dispatches to.
controlBranch(topic, payload) ==
    IF VerifyIncomingTopic(topic).err THEN "drop"
    ELSE IF payload.raw = "empty" THEN "drop"
    ELSE IF payload.raw = "malformed" THEN "drop"
    ELSE IF payload.MessageType = "connection-status" THEN connectionStatusBranch(payload)
    ELSE "drop"

\* The registrar's record of a client after an operation on it.
RegistrarAfter(reg, op, clientID, ok) ==
    IF op = "register" /\ ok THEN [reg EXCEPT ![clientID] = TRUE]
    ELSE IF op = "unregister" THEN [reg EXCEPT ![clientID] = FALSE]
    ELSE reg

\* ------------------------------------------------------------------ state

VARIABLES
    cfg,        \* the configuration: reconnect delay and control publish QoS
    pc,         \* each handler goroutine's position
    frame,      \* the frame each handler goroutine is handling
    ret,        \* what handleConnectionStatusMessage returned: "nil", "err", "none"
    nextId,     \* number of frames delivered so far
    arrived,    \* per delivered frame: its client and connection state
    calls,      \* per client, the collaborator calls made for it, in order
    published,  \* per client, the MQTT messages published to it, in order
    registered, \* the connection registrar's record: clientID -> registered
    crashed,    \* the process has panicked
    metrics,    \* the received-message counters
    conn,       \* broker connection: "down", "hook" (on-connect hook running), "up"
    subIdx,     \* the subscriber the on-connect hook handles next
    connects,   \* number of times the broker connection was established
    subscribed, \* the Subscribe calls made, in order
    mqttFrames, \* the MQTT frames handed to the subscribed message handlers
    writes,     \* the frames whose Kafka write goroutine is still running
    kafka,      \* the records written to Kafka, in order
    forwarderLog, \* error and fatal log entries of the Kafka write goroutines
    fatal       \* the process has exited through logger.Fatal

\* The state of the broker connection and of the MQTT-to-Kafka forwarder.
forwarderVars == << conn, subIdx, connects, subscribed, mqttFrames, writes, kafka, forwarderLog, fatal >>

vars == << cfg, pc, frame, ret, nextId, arrived, calls, published, registered, crashed,
           metrics, forwarderVars >>

Configs ==
    {[InvalidHandshakeReconnectDelay |-> 5, MqttControlPublishQoS |-> 1],
     [InvalidHandshakeReconnectDelay |-> 30, MqttControlPublishQoS |-> 0]}

NoFrame == [id |-> 0, topic |-> MkTopic("", "", "", ""), payload |-> EmptyPayload]

Init ==
    /\ cfg \in Configs
    /\ pc = [w \in Workers |-> "idle"]
    /\ frame = [w \in Workers |-> NoFrame]
    /\ ret = [w \in Workers |-> "none"]
    /\ nextId = 0
    /\ arrived = << >>
    /\ calls = [c \in Clients |-> << >>]
    /\ published = [c \in Clients |-> << >>]
    /\ registered = [c \in Clients |-> FALSE]
    /\ crashed = FALSE
    /\ metrics = [controlMessageReceivedCounter |-> 0, dataMessageReceivedCounter |-> 0]
    /\ conn = "down"
    /\ subIdx = 1
    /\ connects = 0
    /\ subscribed = << >>
    /\ mqttFrames = << >>
    /\ writes = {}
    /\ kafka = << >>
    /\ forwarderLog = << >>
    /\ fatal = FALSE

\* Mutant: logger.Fatal logs and returns, the process keeps running.
Running_afterFatal == ~crashed

\* The process is alive: it has neither panicked nor exited through
\* logger.Fatal (which ends in os.Exit).
Running == ~crashed /\ ~fatal

\* Mutant: a client ID in the payload takes precedence over the topic's.
ClientOf_fromPayload(w) ==
    IF frame[w].payload.client_id # "absent" /\ ~VerifyIncomingTopic(frame[w].topic).err
    THEN frame[w].payload.client_id
    ELSE VerifyIncomingTopic(frame[w].topic).clientID

\* The client a handler works for: the one extracted from the frame's topic.
ClientOf(w) == VerifyIncomingTopic(frame[w].topic).clientID

\* A log with an entry added for the client the handler works for.
Logged(log, w, entry) == [log EXCEPT ![ClientOf(w)] = Append(@, entry)]

Call(w, op, ok, args) ==
    [op |-> op, fid |-> frame[w].id, client |-> ClientOf(w), ok |-> ok, args |-> args]

\* Where a handler goes when a step ends: a panic takes the process down.
Goto(w, target) ==
    /\ pc' = [pc EXCEPT ![w] = target]
    /\ crashed' = (target = "panic")

\* After a step of handleOnlineMessage, processDispatchers runs up to its call.
ToProcessDispatchers(w) ==
    LET d == processDispatchersDecision(frame[w].payload) IN
    /\ Goto(w, IF d = "call" THEN "sources" ELSE IF d = "panic" THEN "panic" ELSE "done")
    /\ ret' = [ret EXCEPT ![w] = IF d = "skip" THEN "nil" ELSE ret[w]]

\* After Register succeeded: the inventory gate, then the recorder or
\* processDispatchers.
ToInventoryGate(w) ==
    LET g == shouldHostBeRegisteredWithInventory(frame[w].payload) IN
    IF g = "true" THEN Goto(w, "record") /\ UNCHANGED ret
    ELSE IF g = "panic" THEN Goto(w, "panic") /\ UNCHANGED ret
    ELSE ToProcessDispatchers(w)

\* The connection state a frame carries on the wire: Content["state"] of a
\* decodable connection-status envelope, "absent" for anything else.
WireState(payload) ==
    IF payload.raw = "json" /\ payload.MessageType = "connection-status"
       /\ payload.Content = "object"
    THEN payload.state ELSE "absent"

\* The goroutine the next frame's handler runs on: goroutines are
\* interchangeable, so it is the router goroutine when that one is free and
\* any other free one when it is not.
FreeWorker ==
    IF pc[RouterWorker] \in {"idle", "done"} THEN RouterWorker
    ELSE IF \E w \in Workers : pc[w] \in {"idle", "done"}
         THEN CHOOSE w \in Workers : pc[w] \in {"idle", "done"}
         ELSE RouterWorker

\* ---------------------------------------------------------------- actions

\* HandleControlMessage, from the delivery of the frame to the first
\* collaborator call of the handler it dispatches to (or to its return).
HandleControlMessage(w, topic, payload) ==
    LET b == controlBranch(topic, payload)
        v == VerifyIncomingTopic(topic)
    IN
    /\ Running
    /\ pc[w] \in {"idle", "done"}
    /\ w = FreeWorker
    /\ nextId + Len(mqttFrames) < MaxFrames
    /\ nextId' = nextId + 1
    /\ metrics' = [metrics EXCEPT !.controlMessageReceivedCounter = @ + 1]
    /\ frame' = [frame EXCEPT ![w] = [id |-> nextId + 1, topic |-> topic, payload |-> payload]]
    /\ arrived' = Append(arrived, [client |-> v.clientID, state |-> WireState(payload)])
    /\ Goto(w, CASE b = "online" -> "resolve"
                 [] b = "offline" -> "unregister"
                 [] b = "panic" -> "panic"
                 [] OTHER -> "done")
    /\ ret' = [ret EXCEPT ![w] = IF b = "invalid" THEN "err" ELSE "none"]
    /\ UNCHANGED << cfg, calls, published, registered >>
    /\ UNCHANGED forwarderVars

\* Mutant: a resolver error returns without sending the reconnect.
handleOnlineMessage_resolve_silent(w) ==
    /\ Running
    /\ pc[w] = "resolve"
    /\ \E ok \in BOOLEAN :
        /\ calls' = Logged(calls, w, Call(w, "resolve", ok, << >>))
        /\ Goto(w, IF ok THEN "register" ELSE "done")
        /\ ret' = [ret EXCEPT ![w] = IF ok THEN ret[w] ELSE "err"]
    /\ UNCHANGED << cfg, frame, nextId, arrived, published, registered >>
    /\ UNCHANGED << metrics, forwarderVars >>

\* Mutant: a resolver error is ignored and the handshake goes on.
handleOnlineMessage_resolve_continue(w) ==
    /\ Running
    /\ pc[w] = "resolve"
    /\ \E ok \in BOOLEAN :
        /\ calls' = Logged(calls, w, Call(w, "resolve", ok, << >>))
        /\ Goto(w, "register")
    /\ UNCHANGED << cfg, frame, ret, nextId, arrived, published, registered >>
    /\ UNCHANGED << metrics, forwarderVars >>

\* handleOnlineMessage: accountResolver.MapClientIdToAccountId and its error branch.
handleOnlineMessage_resolve(w) ==
    /\ Running
    /\ pc[w] = "resolve"
    /\ \E ok \in BOOLEAN :
        /\ calls' = Logged(calls, w, Call(w, "resolve", ok, << >>))
        /\ Goto(w, IF ok THEN "register" ELSE "reconnect")
    /\ UNCHANGED << cfg, frame, ret, nextId, arrived, published, registered >>
    /\ UNCHANGED << metrics, forwarderVars >>

\* Mutant: a Register error is ignored and the handshake goes on.
handleOnlineMessage_register_continue(w) ==
    /\ Running
    /\ pc[w] = "register"
    /\ \E ok \in BOOLEAN :
        /\ calls' = Logged(calls, w, Call(w, "register", ok, << >>))
        /\ registered' = RegistrarAfter(registered, "register", ClientOf(w), ok)
        /\ ToInventoryGate(w)
    /\ UNCHANGED << cfg, frame, nextId, arrived, published >>
    /\ UNCHANGED << metrics, forwarderVars >>

\* handleOnlineMessage: connectionRegistrar.Register, its error branch and,
\* on success, the inventory gate.
handleOnlineMessage_register(w) ==
    /\ Running
    /\ pc[w] = "register"
    /\ \E ok \in BOOLEAN :
        /\ calls' = Logged(calls, w, Call(w, "register", ok, << >>))
        /\ registered' = RegistrarAfter(registered, "register", ClientOf(w), ok)
        /\ IF ok THEN ToInventoryGate(w)
                 ELSE Goto(w, "reconnect") /\ UNCHANGED ret
    /\ UNCHANGED << cfg, frame, nextId, arrived, published >>
    /\ UNCHANGED << metrics, forwarderVars >>

\* Mutant: a recorder error is ignored and the handshake goes on.
handleOnlineMessage_record_continue(w) ==
    /\ Running
    /\ pc[w] = "record"
    /\ \E ok \in BOOLEAN :
        /\ calls' = Logged(calls, w, Call(w, "record", ok, << >>))
        /\ ToProcessDispatchers(w)
    /\ UNCHANGED << cfg, frame, nextId, arrived, published, registered >>
    /\ UNCHANGED << metrics, forwarderVars >>

\* handleOnlineMessage: connectedClientRecorder.RecordConnectedClient and its
\* error branch.
handleOnlineMessage_record(w) ==
    /\ Running
    /\ pc[w] = "record"
    /\ \E ok \in BOOLEAN :
        /\ calls' = Logged(calls, w, Call(w, "record", ok, << >>))
        /\ IF ok THEN ToProcessDispatchers(w)
                 ELSE Goto(w, "reconnect") /\ UNCHANGED ret
    /\ UNCHANGED << cfg, frame, nextId, arrived, published, registered >>
    /\ UNCHANGED << metrics, forwarderVars >>

\* Mutant: a sources recorder error is treated like the other failures.
processDispatchers_fatal(w) ==
    /\ Running
    /\ pc[w] = "sources"
    /\ \E ok \in BOOLEAN :
        /\ calls' = Logged(calls, w, Call(w, "sources", ok, catalogArguments(frame[w].payload)))
        /\ Goto(w, IF ok THEN "done" ELSE "reconnect")
        /\ ret' = [ret EXCEPT ![w] = IF ok THEN "nil" ELSE ret[w]]
    /\ UNCHANGED << cfg, frame, nextId, arrived, published, registered >>
    /\ UNCHANGED << metrics, forwarderVars >>

\* processDispatchers: sourcesRecorder.RegisterWithSources; its error is logged.
processDispatchers(w) ==
    /\ Running
    /\ pc[w] = "sources"
    /\ \E ok \in BOOLEAN :
        calls' = Logged(calls, w, Call(w, "sources", ok, catalogArguments(frame[w].payload)))
    /\ Goto(w, "done")
    /\ ret' = [ret EXCEPT ![w] = "nil"]
    /\ UNCHANGED << cfg, frame, nextId, arrived, published, registered >>
    /\ UNCHANGED << metrics, forwarderVars >>

\* Mutant: the offline handler returns without calling Unregister.
handleOfflineMessage_noop(w) ==
    /\ Running
    /\ pc[w] = "unregister"
    /\ Goto(w, "done")
    /\ ret' = [ret EXCEPT ![w] = "nil"]
    /\ UNCHANGED << cfg, frame, nextId, arrived, calls, published, registered >>
    /\ UNCHANGED << metrics, forwarderVars >>

\* Mutant: the offline handler also sends a reconnect command.
handleOfflineMessage_reconnect(w) ==
    /\ Running
    /\ pc[w] = "unregister"
    /\ calls' = Logged(calls, w, Call(w, "unregister", TRUE, << >>))
    /\ registered' = RegistrarAfter(registered, "unregister", ClientOf(w), TRUE)
    /\ Goto(w, "reconnect")
    /\ UNCHANGED << cfg, frame, ret, nextId, arrived, published >>
    /\ UNCHANGED << metrics, forwarderVars >>

\* handleOfflineMessage: connectionRegistrar.Unregister.
handleOfflineMessage(w) ==
    /\ Running
    /\ pc[w] = "unregister"
    /\ calls' = Logged(calls, w, Call(w, "unregister", TRUE, << >>))
    /\ registered' = RegistrarAfter(registered, "unregister", ClientOf(w), TRUE)
    /\ Goto(w, "done")
    /\ ret' = [ret EXCEPT ![w] = "nil"]
    /\ UNCHANGED << cfg, frame, nextId, arrived, published >>
    /\ UNCHANGED << metrics, forwarderVars >>

\* buildReconnectMessage / buildControlMessage: the envelope of a reconnect.
buildReconnectMessage(delay) ==
    [MessageType |-> "control", Version |-> 1, Command |-> "reconnect", delay |-> delay]

\* Mutant: the reconnect is published as a retained message.
sendReconnectMessageToClient_retained(w) ==
    /\ Running
    /\ pc[w] = "reconnect"
    /\ published' = Logged(published, w,
            [fid |-> frame[w].id,
             topic |-> BuildOutgoingControlTopic(ClientOf(w)),
             qos |-> cfg.MqttControlPublishQoS,
             retained |-> TRUE,
             ack |-> "waiting",
             message |-> buildReconnectMessage(cfg.InvalidHandshakeReconnectDelay)])
    /\ Goto(w, "done")
    /\ ret' = [ret EXCEPT ![w] = "err"]
    /\ UNCHANGED << cfg, frame, nextId, arrived, calls, registered >>
    /\ UNCHANGED << metrics, forwarderVars >>

\* sendReconnectMessageToClient and sendMessage: one publish on the client's
\* outgoing control topic; handleOnlineMessage then returns the error.
sendReconnectMessageToClient(w) ==
    /\ Running
    /\ pc[w] = "reconnect"
    /\ published' = Logged(published, w,
            [fid |-> frame[w].id,
             topic |-> BuildOutgoingControlTopic(ClientOf(w)),
             qos |-> cfg.MqttControlPublishQoS,
             retained |-> FALSE,
             ack |-> "waiting",
             message |-> buildReconnectMessage(cfg.InvalidHandshakeReconnectDelay)])
    /\ Goto(w, "done")
    /\ ret' = [ret EXCEPT ![w] = "err"]
    /\ UNCHANGED << cfg, frame, nextId, arrived, calls, registered >>
    /\ UNCHANGED << metrics, forwarderVars >>

\* Mutant: a failed acknowledgement makes the goroutine publish again.
sendMessage_ack_retry(c, i) ==
    /\ Running
    /\ i \in DOMAIN published[c]
    /\ published[c][i].ack = "waiting"
    /\ \E ok \in BOOLEAN :
        published' = [published EXCEPT ![c] =
            IF ok THEN [@ EXCEPT ![i].ack = "acked"]
            ELSE Append([@ EXCEPT ![i].ack = "failed"], [@[i] EXCEPT !.ack = "waiting"])]
    /\ UNCHANGED << cfg, pc, frame, ret, nextId, arrived, calls, registered, crashed >>
    /\ UNCHANGED << metrics, forwarderVars >>

\* sendMessage: the goroutine that waits for the publish token; a failed
\* acknowledgement is logged.
sendMessage_ack(c, i) ==
    /\ Running
    /\ i \in DOMAIN published[c]
    /\ published[c][i].ack = "waiting"
    /\ \E ok \in BOOLEAN :
        published' = [published EXCEPT ![c][i].ack = IF ok THEN "acked" ELSE "failed"]
    /\ UNCHANGED << cfg, pc, frame, ret, nextId, arrived, calls, registered, crashed >>
    /\ UNCHANGED << metrics, forwarderVars >>

\* ------------------------------------------- broker connection, forwarder

InDataTopic(c) == MkTopic(TopicPrefix, c, "data", "in")

\* The subscriptions installed on connect, in order: the wildcard control
\* topic and the wildcard data topic, each with its entry point.
Subscribers ==
    << [Topic |-> MkTopic(TopicPrefix, "+", "control", "in"), EntryPoint |-> "ControlMessageHandler"],
       [Topic |-> MkTopic(TopicPrefix, "+", "data", "in"), EntryPoint |-> "DataMessageHandler"] >>

\* A topic matches a wildcard subscription when it differs from it at most in
\* the single level the wildcard stands for.
MatchesSubscription(topic, filter) ==
    topic.prefix = filter.prefix /\ topic.kind = filter.kind /\ topic.dir = filter.dir

\* The subscription for entry point e has been installed on the current
\* connection.
Installed(e) ==
    \E i \in DOMAIN Subscribers :
        /\ Subscribers[i].EntryPoint = e
        /\ conn = "up" \/ (conn = "hook" /\ i < subIdx)

\* The frames the broker delivers to the subscribed handlers; the handlers
\* look at a payload's length only, so an empty payload and one of arbitrary
\* bytes stand for all; they pass the message id on unread, so one id does.
MqttTopics == {InControlTopic("abc"), InDataTopic("abc"), InControlTopic("")}
MessageIDs == {7}
MqttPayloads == {EmptyPayload, MalformedPayload}

\* A frame as handed to a message handler; route tells whether it came
\* through its subscription or through the default publish handler.
MqttFrame(topic, messageID, payload, entryPoint) ==
    [topic |-> topic, messageID |-> messageID, payload |-> payload, entryPoint |-> entryPoint,
     route |-> "subscription"]

DefaultFrame(topic, messageID, payload, entryPoint) ==
    [MqttFrame(topic, messageID, payload, entryPoint) EXCEPT !.route = "default"]

\* The Kafka message the forwarder builds for a frame; frame is the position
\* of the MQTT frame it was built for.
KafkaMessage(n, f) ==
    [topic |-> f.topic, mqtt_message_id |-> ToString(f.messageID), value |-> f.payload,
     frame |-> n]

LogEntry(level, msg, n, err) == [level |-> level, msg |-> msg, frame |-> n, err |-> err]

\* RegisterSubscribers: the broker connection is established and the
\* on-connect handler starts.
RegisterSubscribers_onConnect ==
    /\ Running
    /\ conn = "down"
    /\ connects < MaxConnects
    /\ connects' = connects + 1
    /\ conn' = "hook"
    /\ subIdx' = 1
    /\ UNCHANGED << cfg, pc, frame, ret, nextId, arrived, calls, published, registered, crashed >>
    /\ UNCHANGED << metrics, subscribed, mqttFrames, writes, kafka, forwarderLog, fatal >>

\* Mutant: a failed subscription is ignored and the loop goes on.
RegisterSubscribers_subscribe_continue ==
    /\ Running
    /\ conn = "hook"
    /\ \E ok \in BOOLEAN :
        subscribed' = Append(subscribed,
            [connect |-> connects, index |-> subIdx, Topic |-> Subscribers[subIdx].Topic, ok |-> ok])
    /\ subIdx' = subIdx + 1
    /\ conn' = IF subIdx = Len(Subscribers) THEN "up" ELSE "hook"
    /\ UNCHANGED << cfg, pc, frame, ret, nextId, arrived, calls, published, registered, crashed >>
    /\ UNCHANGED << metrics, connects, mqttFrames, writes, kafka, forwarderLog, fatal >>

\* RegisterSubscribers: one round of the on-connect loop, client.Subscribe
\* and token.Wait; a failed subscription ends in logger.Fatalf.
RegisterSubscribers_subscribe ==
    /\ Running
    /\ conn = "hook"
    /\ \E ok \in BOOLEAN :
        /\ subscribed' = Append(subscribed,
            [connect |-> connects, index |-> subIdx, Topic |-> Subscribers[subIdx].Topic, ok |-> ok])
        /\ fatal' = (fatal \/ ~ok)
        /\ subIdx' = IF ok THEN subIdx + 1 ELSE subIdx
        /\ conn' = IF ok /\ subIdx = Len(Subscribers) THEN "up" ELSE "hook"
    /\ UNCHANGED << cfg, pc, frame, ret, nextId, arrived, calls, published, registered, crashed >>
    /\ UNCHANGED << metrics, connects, mqttFrames, writes, kafka, forwarderLog >>

\* The broker connection is lost; the MQTT client will connect again.
ConnectionLost ==
    /\ Running
    /\ conn = "up"
    /\ conn' = "down"
    /\ UNCHANGED << cfg, pc, frame, ret, nextId, arrived, calls, published, registered, crashed >>
    /\ UNCHANGED << metrics, subIdx, connects, subscribed, mqttFrames, writes, kafka, forwarderLog, fatal >>

\* The body of ControlMessageHandler for the frame f, up to the start of the
\* goroutine that writes the frame to Kafka.
ControlMessageHandler_run(f) ==
    LET n == Len(mqttFrames) + 1
        v == VerifyIncomingTopic(f.topic)
    IN
    /\ mqttFrames' = Append(mqttFrames, f)
    /\ forwarderLog' = IF v.err THEN Append(forwarderLog, LogEntry("error", "Failed to verify topic", n, "topic"))
                      ELSE forwarderLog
    /\ writes' = IF ~v.err /\ f.payload.raw # "empty" THEN writes \cup {n} ELSE writes
    /\ UNCHANGED metrics

\* ControlMessageHandler: the entry point of the control subscription.
ControlMessageHandler(topic, messageID, payload) ==
    /\ Running
    /\ Installed("ControlMessageHandler")
    /\ MatchesSubscription(topic, Subscribers[1].Topic)
    /\ nextId + Len(mqttFrames) < MaxFrames
    /\ ControlMessageHandler_run(MqttFrame(topic, messageID, payload, "ControlMessageHandler"))
    /\ UNCHANGED << cfg, pc, frame, ret, nextId, arrived, calls, published, registered, crashed >>
    /\ UNCHANGED << conn, subIdx, connects, subscribed, kafka, fatal >>

\* ControlMessageHandler: the goroutine's kafkaWriter.WriteMessages returns.
ControlMessageHandler_write(n) ==
    /\ Running
    /\ n \in writes
    /\ writes' = writes \ {n}
    /\ \E result \in {"ok", "canceled", "failed"} :
        /\ kafka' = IF result = "ok" THEN Append(kafka, KafkaMessage(n, mqttFrames[n])) ELSE kafka
        /\ forwarderLog' =
            CASE result = "ok" -> forwarderLog
              [] result = "canceled" ->
                    Append(forwarderLog, LogEntry("error", "Error writing MQTT message to kafka", n, result))
              [] result = "failed" ->
                    forwarderLog \o
                        << LogEntry("error", "Error writing MQTT message to kafka", n, result),
                           LogEntry("fatal", "Failed writing to kafka", n, result) >>
        /\ fatal' = (fatal \/ result = "failed")
    /\ UNCHANGED << cfg, pc, frame, ret, nextId, arrived, calls, published, registered, crashed >>
    /\ UNCHANGED << metrics, conn, subIdx, connects, subscribed, mqttFrames >>

\* The body of DataMessageHandler for the frame f.
DataMessageHandler_run(f) ==
    /\ mqttFrames' = Append(mqttFrames, f)
    /\ metrics' = [metrics EXCEPT !.dataMessageReceivedCounter = @ + 1]
    /\ UNCHANGED << writes, forwarderLog >>

\* DataMessageHandler: the entry point of the data subscription.
DataMessageHandler(topic, messageID, payload) ==
    /\ Running
    /\ Installed("DataMessageHandler")
    /\ MatchesSubscription(topic, Subscribers[2].Topic)
    /\ nextId + Len(mqttFrames) < MaxFrames
    /\ DataMessageHandler_run(MqttFrame(topic, messageID, payload, "DataMessageHandler"))
    /\ UNCHANGED << cfg, pc, frame, ret, nextId, arrived, calls, published, registered, crashed >>
    /\ UNCHANGED << conn, subIdx, connects, subscribed, kafka, fatal >>

\* The topics of the frames that arrive while no subscription is installed
\* for them.
DefaultTopics == MqttTopics \cup {MkTopic(TopicPrefix, "abc", "events", "in")}

\* A subscription that is installed matches the topic.
Routed(topic) ==
    \E i \in DOMAIN Subscribers :
        MatchesSubscription(topic, Subscribers[i].Topic) /\ Installed(Subscribers[i].EntryPoint)

\* Mutant: the default handler hands every verified frame to the control handler.
DefaultMessageHandler_controlOnly(topic, messageID, payload) ==
    LET v == VerifyIncomingTopic(topic) IN
    /\ Running
    /\ conn # "down" /\ ~Routed(topic)
    /\ nextId + Len(mqttFrames) < MaxFrames
    /\ IF v.err
       THEN /\ mqttFrames' = Append(mqttFrames, DefaultFrame(topic, messageID, payload, "none"))
            /\ UNCHANGED << metrics, writes, forwarderLog >>
       ELSE ControlMessageHandler_run(DefaultFrame(topic, messageID, payload, "ControlMessageHandler"))
    /\ UNCHANGED << cfg, pc, frame, ret, nextId, arrived, calls, published, registered, crashed >>
    /\ UNCHANGED << conn, subIdx, connects, subscribed, kafka, fatal >>

\* DefaultMessageHandler: the default publish handler, called for a frame
\* that no installed subscription takes.
DefaultMessageHandler(topic, messageID, payload) ==
    LET v == VerifyIncomingTopic(topic) IN
    /\ Running
    /\ conn # "down" /\ ~Routed(topic)
    /\ nextId + Len(mqttFrames) < MaxFrames
    /\ IF v.err
       THEN /\ mqttFrames' = Append(mqttFrames, DefaultFrame(topic, messageID, payload, "none"))
            /\ UNCHANGED << metrics, writes, forwarderLog >>
       ELSE IF v.topicType = "control"
       THEN ControlMessageHandler_run(DefaultFrame(topic, messageID, payload, "ControlMessageHandler"))
       ELSE IF v.topicType = "data"
       THEN DataMessageHandler_run(DefaultFrame(topic, messageID, payload, "DataMessageHandler"))
       ELSE /\ mqttFrames' = Append(mqttFrames, DefaultFrame(topic, messageID, payload, "none"))
            /\ UNCHANGED << metrics, writes, forwarderLog >>
    /\ UNCHANGED << cfg, pc, frame, ret, nextId, arrived, calls, published, registered, crashed >>
    /\ UNCHANGED << conn, subIdx, connects, subscribed, kafka, fatal >>

\* One step of a running handler.
Step(w) ==
    \/ handleOnlineMessage_resolve(w)
    \/ handleOnlineMessage_register(w)
    \/ handleOnlineMessage_record(w)
    \/ processDispatchers(w)
    \/ handleOfflineMessage(w)
    \/ sendReconnectMessageToClient(w)

\* Frames are delivered to handler goroutines that run concurrently.
Next ==
    \/ \E w \in Workers, t \in CoreTopics, p \in CorePayloads : HandleControlMessage(w, t, p)
    \/ \E w \in Workers : Step(w)

\* Concurrent handlers are explored under one configuration.
InitCore == Init /\ cfg.MqttControlPublishQoS = 1

Spec == InitCore /\ [][Next]_vars

\* Frames are delivered in order: the router goroutine calls the handler for
\* one frame and delivers the next when it has returned.
NextOrdered ==
    \/ \E f \in OrderedFrames : HandleControlMessage(RouterWorker, f.topic, f.payload)
    \/ Step(RouterWorker)

SpecOrdered == Init /\ [][NextOrdered]_vars

\* The MQTT message consumer: the broker connection with its subscriptions,
\* the subscribed entry points and the Kafka write goroutines, next to the
\* control message handler called for one frame at a time.
NextForward ==
    \/ RegisterSubscribers_onConnect
    \/ RegisterSubscribers_subscribe
    \/ ConnectionLost
    \/ \E t \in MqttTopics, id \in MessageIDs, p \in MqttPayloads : ControlMessageHandler(t, id, p)
    \/ \E n \in writes : ControlMessageHandler_write(n)
    \/ \E t \in MqttTopics, id \in MessageIDs, p \in MqttPayloads : DataMessageHandler(t, id, p)
    \/ \E t \in DefaultTopics, id \in MessageIDs, p \in MqttPayloads : DefaultMessageHandler(t, id, p)
    \/ \E t \in CoreTopics, p \in CorePayloads : HandleControlMessage(RouterWorker, t, p)
    \/ Step(RouterWorker)

SpecForward == InitCore /\ [][NextForward]_vars

\* Ordered handshakes together with the goroutines that wait for the
\* acknowledgement of each publish.
NextPublish ==
    \/ \E t \in CoreTopics, p \in CorePayloads : HandleControlMessage(RouterWorker, t, p)
    \/ Step(RouterWorker)
    \/ \E c \in Clients : \E i \in DOMAIN published[c] : sendMessage_ack(c, i)

SpecPublish == Init /\ [][NextPublish]_vars

\* ------------------------------------------------------ observations

Idx(seq) == DOMAIN seq

\* The calls made / the messages published for the client of frame fid.
CallsFor(fid) == IF arrived[fid].client \in Clients THEN calls[arrived[fid].client] ELSE << >>
PubsFor(fid) == IF arrived[fid].client \in Clients THEN published[arrived[fid].client] ELSE << >>

\* Number of calls of op made for frame fid (succeeded or failed).
CallsOf(fid, op) ==
    LET log == CallsFor(fid) IN
    Cardinality({i \in Idx(log) : log[i].fid = fid /\ log[i].op = op})

\* A call of op for frame fid returned an error / returned success.
Failed(fid, op) ==
    LET log == CallsFor(fid) IN
    \E i \in Idx(log) : log[i].fid = fid /\ log[i].op = op /\ ~log[i].ok
Succeeded(fid, op) ==
    LET log == CallsFor(fid) IN
    \E i \in Idx(log) : log[i].fid = fid /\ log[i].op = op /\ log[i].ok

\* Number of MQTT messages published for frame fid.
PubsOf(fid) ==
    LET log == PubsFor(fid) IN
    Cardinality({i \in Idx(log) : log[i].fid = fid})

Delivered == 1..nextId

\* The frame's handler has returned.
FrameDone(fid) == fid \in Delivered /\ \A w \in Workers : frame[w].id = fid => pc[w] = "done"

\* The frame started an online / offline handshake for a client.
OnlineFrame(fid) == fid \in Delivered /\ arrived[fid].client # "" /\ arrived[fid].state = "online"
OfflineFrame(fid) == fid \in Delivered /\ arrived[fid].client # "" /\ arrived[fid].state = "offline"

\* A handler goroutine is in the middle of a handshake.
Active(w) == pc[w] \in {"resolve", "register", "record", "sources", "unregister", "reconnect"}

\* The registrar calls made for a client, in order.
RegistrarCalls(c) == SelectSeq(calls[c], LAMBDA e : e.op \in {"register", "unregister"})

\* ---------------------------------------------------------------- claims

\* C1: for any client at most one connection-status handshake is in progress
\* at a time: two handler goroutines are never in the middle of a handshake
\* for the same client, and in the order of the collaborator calls the calls
\* of one frame never have a call of another frame of the same client
\* between them.
C1_OneHandshakePerClient ==
    /\ \A w1, w2 \in Workers :
        (w1 # w2 /\ Active(w1) /\ Active(w2)) => ClientOf(w1) # ClientOf(w2)
    /\ \A c \in Clients : \A i, j, k \in Idx(calls[c]) :
        (i < j /\ j < k /\ calls[c][i].fid = calls[c][k].fid)
            => calls[c][j].fid = calls[c][i].fid

C3_RegisterUnregisterAlternate ==
    \A c \in Clients :
        LET r == RegistrarCalls(c) IN
        \A i \in Idx(r) :
            (i < Len(r) /\ r[i].op = "register") => r[i + 1].op = "unregister"

\* C3 amended: with in-order delivery the registrar calls of a client follow
\* its frames: at most one call per frame, in frame order, Register only for
\* an online frame and Unregister exactly once for every handled offline
\* frame; so two Registers in a row come from two online frames with no
\* offline frame of that client between them.
C3_RegistrarFollowsFrames ==
    \A c \in Clients :
        LET r == RegistrarCalls(c) IN
        /\ \A i \in Idx(r) :
            /\ arrived[r[i].fid].client = c
            /\ r[i].op = "register" => arrived[r[i].fid].state = "online"
            /\ r[i].op = "unregister" => arrived[r[i].fid].state = "offline"
        /\ \A i, j \in Idx(r) : i < j => r[i].fid < r[j].fid
        /\ \A fid \in Delivered :
            (OfflineFrame(fid) /\ FrameDone(fid) /\ arrived[fid].client = c)
                => CallsOf(fid, "unregister") = 1
        /\ \A i \in Idx(r) :
            (i < Len(r) /\ r[i].op = "register" /\ r[i + 1].op = "register") =>
                \A fid \in Delivered :
                    (r[i].fid < fid /\ fid < r[i + 1].fid)
                        => ~(OfflineFrame(fid) /\ arrived[fid].client = c)

\* C3 witness: Register called twice in a row for one client.
C3_Witness ==
    \E c \in Clients :
        LET r == RegistrarCalls(c) IN
        \E i \in Idx(r) : i < Len(r) /\ r[i].op = "register" /\ r[i + 1].op = "register"

\* C4: when an online frame and then an offline frame arrive for a client,
\* the offline frame's Unregister never comes before the online frame's
\* Register, and once both handlers have returned (the two being the
\* client's only frames) the client is not registered.
C4_OfflineObservesOnline ==
    /\ \A c \in Clients : \A i, j \in Idx(calls[c]) :
        (/\ calls[c][i].op = "unregister" /\ calls[c][j].op = "register"
         /\ calls[c][j].fid < calls[c][i].fid)
            => j < i
    /\ \A f1, f2 \in Delivered :
        (/\ f1 < f2 /\ OnlineFrame(f1) /\ OfflineFrame(f2)
         /\ arrived[f1].client = arrived[f2].client
         /\ \A f \in Delivered \ {f1, f2} : arrived[f].client # arrived[f1].client
         /\ FrameDone(f1) /\ FrameDone(f2))
            => ~registered[arrived[f1].client]

\* C5: in an online handshake whose resolution and registration succeeded,
\* once past the inventory gate RecordConnectedClient has been called exactly
\* once if the payload has the key canonical_facts and its dispatchers map
\* has the key rhc-worker-playbook, and not at all otherwise.
C5_InventoryIff ==
    \A w \in Workers :
        LET fid == frame[w].id
            p == frame[w].payload
        IN
        (fid \in Delivered /\ Succeeded(fid, "register") /\ pc[w] # "record") =>
            /\ CallsOf(fid, "record") <= 1
            /\ (CallsOf(fid, "record") = 1) <=>
                (p.canonical_facts # "absent" /\ p.dispatchers = "object" /\ p.playbook)

\* C5 witness: a returned handshake in which the recorder was called.
C5_Witness ==
    \E w \in Workers :
        /\ pc[w] = "done" /\ Succeeded(frame[w].id, "register")
        /\ CallsOf(frame[w].id, "record") = 1

\* C6: an online handshake that went through the enroll-sources step called
\* RegisterWithSources exactly once iff dispatchers.catalog is present with
\* all of ApplicationType, SrcName, SrcRef and SrcType, and then with the
\* values of those four keys.
C6_SourcesIffCatalogComplete ==
    \A w \in Workers :
        LET fid == frame[w].id
            p == frame[w].payload
            complete ==
                /\ p.dispatchers = "object" /\ p.catalog = "object"
                /\ \A k \in SpecFour : p.fields[k] # "absent"
        IN
        (OnlineFrame(fid) /\ pc[w] = "done" /\ ret[w] = "nil") =>
            /\ (CallsOf(fid, "sources") = 1) <=> complete
            /\ complete =>
                \E i \in Idx(CallsFor(fid)) :
                    /\ CallsFor(fid)[i].fid = fid /\ CallsFor(fid)[i].op = "sources"
                    /\ CallsFor(fid)[i].args = << p.fields["SrcRef"], p.fields["SrcName"],
                                          p.fields["SrcType"], p.fields["ApplicationType"] >>

C10_SourcesErrorNotFatal ==
    \A fid \in Delivered :
        Failed(fid, "sources") =>
            /\ PubsOf(fid) = 0
            /\ CallsOf(fid, "register") = 1
            /\ Succeeded(fid, "register")
            /\ CallsOf(fid, "unregister") = 0
            /\ FrameDone(fid)
            /\ \A w \in Workers : frame[w].id = fid => ret[w] = "nil"
            /\ LET log == CallsFor(fid) IN
               \A i \in Idx(log) :
                (/\ log[i].fid = fid /\ log[i].op = "register"
                 /\ \A j \in Idx(log) : j > i => log[j].op \notin {"register", "unregister"})
                    => registered[log[i].client]

\* C10 witness: a returned handshake whose sources enrollment failed.
C10_Witness ==
    \E w \in Workers :
        /\ pc[w] = "done" /\ Failed(frame[w].id, "sources")
        /\ registered[ClientOf(w)]

\* C11: an online handshake that ended by publishing a reconnect command
\* leaves no registration behind: once its handler has returned, the client
\* is not registered through a Register call of that handshake.
C11_RejectedLeavesNoRegistration ==
    \A w \in Workers :
        LET fid == frame[w].id IN
        (fid \in Delivered /\ pc[w] = "done" /\ PubsOf(fid) >= 1) =>
            ~(Succeeded(fid, "register") /\ registered[ClientOf(w)])

\* C12: an offline connection-status frame calls Unregister for the topic's
\* client exactly once and does nothing else: no resolver, Register, inventory
\* or sources call is made for it and nothing is published, whether or not
\* the client was registered before.
C12_OfflineOnlyUnregisters ==
    \A fid \in Delivered :
        OfflineFrame(fid) =>
            /\ \A op \in {"resolve", "register", "record", "sources"} : CallsOf(fid, op) = 0
            /\ PubsOf(fid) = 0
            /\ CallsOf(fid, "unregister") <= 1
            /\ FrameDone(fid) => CallsOf(fid, "unregister") = 1
            /\ \A i \in Idx(CallsFor(fid)) :
                CallsFor(fid)[i].fid = fid => CallsFor(fid)[i].client = arrived[fid].client

\* C12 witness: a returned offline frame whose Unregister came after a
\* successful Register of an earlier frame of the same client, and left the
\* client unregistered.
C12_Witness ==
    \E f1, f2 \in Delivered :
        /\ f1 < f2 /\ arrived[f1].client = arrived[f2].client
        /\ OfflineFrame(f2) /\ FrameDone(f2) /\ CallsOf(f2, "unregister") = 1
        /\ LET log == CallsFor(f2) IN
           \E i, j \in Idx(log) :
                /\ i < j /\ j = Len(log)
                /\ log[i].fid = f1 /\ log[i].op = "register" /\ log[i].ok
                /\ log[j].fid = f2 /\ log[j].op = "unregister"
        /\ ~registered[arrived[f2].client]

\* A connection-status frame whose Content is an object without a usable
\* state: the key is missing or its value is neither online nor offline.
InvalidStatePayload(p) ==
    /\ p.raw = "json" /\ p.MessageType = "connection-status" /\ p.Content = "object"
    /\ p.state \notin {"online", "offline"}

\* C13: a connection-status frame on a verified control topic whose state is
\* missing or is neither online nor offline is dropped: its handler returns an error at once, no reconnect
\* is published for it and no resolver, registrar (Register or Unregister) or
\* recorder call is made for it.
C13_InvalidStateDropped ==
    \A w \in Workers :
        LET fid == frame[w].id IN
        (fid \in Delivered /\ ClientOf(w) # "" /\ InvalidStatePayload(frame[w].payload)) =>
            /\ pc[w] = "done" /\ ret[w] = "err"
            /\ PubsOf(fid) = 0
            /\ \A op \in {"resolve", "register", "unregister", "record", "sources"} :
                CallsOf(fid, op) = 0

\* C13 witness: a frame with an unknown state value was dropped for a client
\* that an earlier frame had registered, and the client is still registered.
C13_Witness ==
    \E w \in Workers :
        /\ frame[w].id \in Delivered /\ pc[w] = "done"
        /\ InvalidStatePayload(frame[w].payload) /\ frame[w].payload.state = "bogus"
        /\ ClientOf(w) \in Clients /\ registered[ClientOf(w)]

\* A step of the online handshake of frame fid returned an error that rejects
\* the client: account resolution, registration or inventory recording.
Rejected(fid) == Failed(fid, "resolve") \/ Failed(fid, "register") \/ Failed(fid, "record")

\* C14: every MQTT message published is a reconnect command for the client
\* of an online handshake in which account resolution, registration or
\* inventory recording failed; a handshake whose executed steps all
\* succeeded, an offline handshake and a dropped frame publish nothing.
C14_ReconnectOnlyOnRejection ==
    /\ \A c \in Clients : \A i \in Idx(published[c]) :
        LET m == published[c][i] IN
        /\ m.fid \in Delivered /\ arrived[m.fid].client = c
        /\ m.message.Command = "reconnect"
        /\ OnlineFrame(m.fid) /\ Rejected(m.fid)
    /\ \A fid \in Delivered :
        (~OnlineFrame(fid) \/ (FrameDone(fid) /\ ~Rejected(fid))) => PubsOf(fid) = 0

\* C14 witness: one client's handshake was rejected with a reconnect and its
\* next handshake went through, sources enrollment failing, with no publish.
C14_Witness ==
    \E f1, f2 \in Delivered :
        /\ f1 < f2 /\ arrived[f1].client = arrived[f2].client
        /\ Rejected(f1) /\ PubsOf(f1) = 1
        /\ OnlineFrame(f2) /\ FrameDone(f2) /\ Failed(f2, "sources") /\ PubsOf(f2) = 0

\* C20: every reconnect command is published on the outbound control topic
\* of the client whose frame triggered it, not retained, at the configured
\* control publish QoS, as an envelope with MessageType control, Version 1,
\* Command reconnect and Arguments delay equal to the configured delay.
C20_ReconnectEnvelope ==
    \A c \in Clients : \A i \in Idx(published[c]) :
        LET m == published[c][i] IN
        /\ m.fid \in Delivered
        /\ m.topic = [prefix |-> TopicPrefix, clientID |-> arrived[m.fid].client,
                      kind |-> "control", dir |-> "out"]
        /\ m.topic.clientID = c
        /\ m.retained = FALSE
        /\ m.qos = cfg.MqttControlPublishQoS
        /\ m.message = [MessageType |-> "control", Version |-> 1, Command |-> "reconnect",
                        delay |-> cfg.InvalidHandshakeReconnectDelay]

\* C20 witness: reconnect commands were published to two different clients
\* under the configuration that publishes at QoS 0.
C20_Witness ==
    /\ \A c \in Clients : Len(published[c]) = 1
    /\ cfg.MqttControlPublishQoS = 0
    /\ \A w \in Workers : pc[w] \in {"idle", "done"}

\* The step hands a new MQTT frame to the entry point e.
Handed(e) ==
    /\ Len(mqttFrames') = Len(mqttFrames) + 1
    /\ mqttFrames'[Len(mqttFrames')].entryPoint = e

\* C15: a control-topic frame with an empty payload has no side effects - no
\* collaborator call, no MQTT publish, no Kafka record or write - but the
\* control_messages_received counter goes up by one for it.
C15_EmptyControlFrameCounted ==
    [][(Handed("ControlMessageHandler") /\ mqttFrames'[Len(mqttFrames')].payload.raw = "empty") =>
        /\ calls' = calls /\ published' = published /\ registered' = registered
        /\ kafka' = kafka /\ writes' = writes
        /\ metrics'.controlMessageReceivedCounter = metrics.controlMessageReceivedCounter + 1]_vars

\* The Kafka records written for the MQTT frame at position n.
RecordsOf(n) == {i \in Idx(kafka) : kafka[i].frame = n}

\* C16: for every data-topic frame the data forwarder has finished with,
\* Kafka holds exactly one record for it when its payload is not empty, with
\* the raw payload as value, the frame's MQTT topic as topic header and its
\* message id as mqtt_message_id header, and no record when it is empty.
C16_OneRecordPerDataFrame ==
    \A n \in Idx(mqttFrames) :
        LET f == mqttFrames[n] IN
        (f.topic.kind = "data" /\ n \notin writes /\ ~fatal) =>
            IF f.payload.raw = "empty" THEN RecordsOf(n) = {}
            ELSE /\ Cardinality(RecordsOf(n)) = 1
                 /\ \A i \in RecordsOf(n) :
                        /\ kafka[i].value = f.payload
                        /\ kafka[i].topic = f.topic
                        /\ kafka[i].mqtt_message_id = ToString(f.messageID)

\* A Kafka write has failed for a reason other than cancellation.
KafkaWriteFailed == \E i \in Idx(forwarderLog) : forwarderLog[i].err = "failed"

\* C17: when a Kafka write has failed for a reason other than cancellation
\* the service is in the fatal state, and in the fatal state no further frame
\* is consumed: no step adds an MQTT frame, a control message, a Kafka
\* record, a collaborator call or an MQTT publish.
C17_KafkaFailureStopsService ==
    /\ [](KafkaWriteFailed => fatal)
    /\ [][fatal =>
            /\ mqttFrames' = mqttFrames /\ nextId' = nextId /\ kafka' = kafka
            /\ calls' = calls /\ published' = published /\ registered' = registered]_vars

\* C17 witness: a Kafka write failed while a handshake was between two
\* collaborator calls; the handshake's next call is never made.
C17_Witness ==
    /\ KafkaWriteFailed /\ fatal
    /\ Active(RouterWorker)

\* C18: a Kafka write that failed because its context was canceled returns
\* quietly: it leaves no error-level (or fatal) log entry and does not put
\* the service into the fatal state.
C18_CanceledWriteIsSilent ==
    /\ \A i \in Idx(forwarderLog) :
        forwarderLog[i].err = "canceled" => forwarderLog[i].level \notin {"error", "fatal"}
    /\ fatal => (KafkaWriteFailed \/ \E i \in Idx(subscribed) : ~subscribed[i].ok)

\* C19: every time the broker connection is established the on-connect hook
\* subscribes to the configured subscriptions in the order given, one after
\* the other; a failed subscription puts the process into the fatal state
\* and is the last subscription attempted.
C19_SubscribeInOrder ==
    LET N == Len(Subscribers) IN
    /\ \A k \in Idx(subscribed) :
        LET e == subscribed[k] IN
        /\ e.connect \in 1..connects /\ e.index \in 1..N
        /\ e.Topic = Subscribers[e.index].Topic
        /\ IF k = 1 THEN e.connect = 1 /\ e.index = 1
           ELSE LET p == subscribed[k - 1] IN
                /\ p.ok
                /\ \/ e.connect = p.connect /\ e.index = p.index + 1
                   \/ e.connect = p.connect + 1 /\ e.index = 1 /\ p.index = N
        /\ ~e.ok => (k = Len(subscribed) /\ fatal)
    /\ \A c \in 1..connects :
        (c < connects \/ conn # "hook") =>
            \A i \in 1..N : \E k \in Idx(subscribed) :
                subscribed[k].connect = c /\ subscribed[k].index = i /\ subscribed[k].ok

\* C19 witness: the connection was lost and established again, and the hook
\* has installed every subscription a second time.
C19_Witness ==
    /\ connects > 1 /\ conn = "up"
    /\ Len(subscribed) = connects * Len(Subscribers)

\* The position of a collaborator call in the online handshake.
OpRank(op) ==
    CASE op = "resolve" -> 1
      [] op = "register" -> 2
      [] op = "record" -> 3
      [] op = "sources" -> 4
      [] OTHER -> 0

\* C21: within one online handshake the collaborator calls come in the order
\* resolve, Register, RecordConnectedClient, RegisterWithSources, each at most
\* once, and the recorder and the sources recorder are called for a frame
\* only after Register for the same frame has returned success.
C21_HandshakeCallOrder ==
    \A c \in Clients : \A i \in Idx(calls[c]) :
        LET e == calls[c][i] IN
        /\ \A j \in Idx(calls[c]) :
            (i < j /\ calls[c][j].fid = e.fid) => OpRank(e.op) < OpRank(calls[c][j].op)
        /\ e.op \in {"register", "record", "sources"} =>
            \E j \in Idx(calls[c]) :
                /\ j < i /\ calls[c][j].fid = e.fid
                /\ calls[c][j].op = "resolve" /\ calls[c][j].ok
        /\ e.op \in {"record", "sources"} =>
            \E j \in Idx(calls[c]) :
                /\ j < i /\ calls[c][j].fid = e.fid
                /\ calls[c][j].op = "register" /\ calls[c][j].ok

\* C21 witness: a handshake made all four calls while another frame's
\* handler made a call for the same client between them.
C21_Witness ==
    \E c \in Clients : \E i, j, k \in Idx(calls[c]) :
        /\ i < j /\ j < k
        /\ calls[c][i].fid = calls[c][k].fid /\ calls[c][j].fid # calls[c][i].fid
        /\ calls[c][i].op = "resolve" /\ calls[c][k].op = "sources"
        /\ CallsOf(calls[c][i].fid, "record") = 1

\* The frame can start a handshake: its topic passes verification, its
\* payload is not empty and decodes as a JSON envelope, and its MessageType
\* is connection-status.
Eligible(f) ==
    /\ ~VerifyIncomingTopic(f.topic).err
    /\ f.payload.raw = "json"
    /\ f.payload.MessageType = "connection-status"

\* C22: only a control frame that passes topic verification, has a non-empty
\* payload, decodes as a JSON envelope and has MessageType connection-status
\* causes a collaborator call or an MQTT publish; any other frame is dropped:
\* its handler returns at once, with no call and no publish for it.
C22_OnlyConnectionStatusActs ==
    /\ \A w \in Workers :
        LET fid == frame[w].id IN
        (fid \in Delivered /\ ~Eligible(frame[w])) =>
            /\ pc[w] = "done"
            /\ PubsOf(fid) = 0
            /\ \A op \in {"resolve", "register", "unregister", "record", "sources"} :
                CallsOf(fid, op) = 0
    /\ \A c \in Clients :
        /\ \A i \in Idx(calls[c]) :
            arrived[calls[c][i].fid].client = c /\ arrived[calls[c][i].fid].state # "absent"
        /\ \A i \in Idx(published[c]) :
            arrived[published[c][i].fid].client = c /\ arrived[published[c][i].fid].state # "absent"

\* C22 witness: an event message was dropped for a client that an earlier
\* frame had registered.
C22_Witness ==
    \E w \in Workers :
        /\ frame[w].id \in Delivered /\ pc[w] = "done"
        /\ frame[w].payload.MessageType = "event"
        /\ ClientOf(w) \in Clients /\ registered[ClientOf(w)]
        /\ CallsOf(frame[w].id, "resolve") = 0

\* The handler a topic's classification selects: the prefix matches, there
\* is a client ID, the direction is in and the kind is control or data.
HandlerFor(topic) ==
    IF topic.prefix = TopicPrefix /\ topic.clientID # "" /\ topic.dir = "in"
    THEN CASE topic.kind = "control" -> "ControlMessageHandler"
           [] topic.kind = "data" -> "DataMessageHandler"
           [] OTHER -> "none"
    ELSE "none"

\* The Kafka forwarder has acted on the MQTT frame at position n.
Forwarding(n) ==
    \/ n \in writes
    \/ RecordsOf(n) # {}
    \/ \E i \in Idx(forwarderLog) : forwarderLog[i].frame = n

\* C23: a frame that reaches the default handler is handed to exactly one
\* handler, the one its topic classification selects - the control handler
\* for a control topic, the data handler for a data topic - and to none when
\* topic verification fails or the kind is unknown.
C23_DefaultDispatch ==
    /\ \A n \in Idx(mqttFrames) :
        LET f == mqttFrames[n] IN
        f.route = "default" =>
            /\ f.entryPoint = HandlerFor(f.topic)
            /\ f.entryPoint # "ControlMessageHandler" => ~Forwarding(n)
            /\ (f.entryPoint = "ControlMessageHandler" /\ f.payload.raw # "empty") => Forwarding(n)
    /\ metrics.dataMessageReceivedCounter =
            Cardinality({n \in Idx(mqttFrames) : mqttFrames[n].entryPoint = "DataMessageHandler"})

\* C23 witness: the default handler handed a data-topic frame to the data
\* handler and dropped a frame whose topic has an unknown kind.
C23_Witness ==
    \E n, m \in Idx(mqttFrames) :
        /\ mqttFrames[n].route = "default" /\ mqttFrames[m].route = "default"
        /\ mqttFrames[n].topic.kind = "data" /\ mqttFrames[n].entryPoint = "DataMessageHandler"
        /\ mqttFrames[m].topic.kind = "events" /\ mqttFrames[m].entryPoint = "none"

\* C24: publishing a reconnect command does not wait for the broker's
\* acknowledgement: the handler has returned, with the error, whatever the
\* state of the acknowledgement; the acknowledgement is observed by a
\* background goroutine; and a failed acknowledgement leads to no second
\* publish, so a handshake publishes at most once.
C24_PublishDoesNotWait ==
    /\ \A fid \in Delivered : PubsOf(fid) <= 1
    /\ \A c \in Clients : \A i \in Idx(published[c]) :
        LET m == published[c][i] IN
        /\ m.ack \in {"waiting", "acked", "failed"}
        /\ \A w \in Workers : frame[w].id = m.fid => (pc[w] = "done" /\ ret[w] = "err")
        /\ \A j \in Idx(published[c]) : published[c][j].fid = m.fid => j = i

\* C24 witness: a handshake's handler returned while the acknowledgement was
\* outstanding, the client's next frame was handled, and the acknowledgement
\* then reported a failure.
C24_Witness ==
    \E c \in Clients : \E i \in Idx(published[c]) :
        /\ published[c][i].ack = "failed"
        /\ \E fid \in Delivered :
            /\ fid > published[c][i].fid /\ arrived[fid].client = c
            /\ Succeeded(fid, "register") /\ FrameDone(fid)
        /\ PubsOf(published[c][i].fid) = 1

\* C25: the client ID of every collaborator call and of every reconnect
\* topic is the one extracted from the frame's MQTT topic, whatever the
\* payload says: frames on one topic lead to calls and publishes for one
\* client ID, and a client ID inside the payload redirects nothing.
C25_ClientFromTopic ==
    /\ \A c \in Clients :
        /\ \A i \in Idx(calls[c]) :
            /\ calls[c][i].client = c
            /\ arrived[calls[c][i].fid].client = c
        /\ \A i \in Idx(published[c]) :
            /\ published[c][i].topic.clientID = c
            /\ arrived[published[c][i].fid].client = c
    /\ \A w \in Workers :
        (frame[w].id \in Delivered /\ ~VerifyIncomingTopic(frame[w].topic).err) =>
            /\ arrived[frame[w].id].client = frame[w].topic.clientID
            /\ \A c \in Clients \ {frame[w].topic.clientID} :
                /\ \A i \in Idx(calls[c]) : calls[c][i].fid # frame[w].id
                /\ \A i \in Idx(published[c]) : published[c][i].fid # frame[w].id

\* C25 witness: two frames on one client's topic, the second naming another
\* client in its payload, were both handled for the topic's client; nothing
\* was done for the client named in the payload.
C25_Witness ==
    \E w \in Workers :
        LET c == frame[w].topic.clientID IN
        /\ frame[w].id > 1 /\ pc[w] = "done" /\ c \in Clients
        /\ frame[w].payload.client_id \in Clients \ {c}
        /\ arrived[1].client = c /\ CallsOf(1, "register") = 1
        /\ CallsOf(frame[w].id, "resolve") = 1 /\ PubsOf(frame[w].id) = 1
        /\ calls[frame[w].payload.client_id] = << >>
        /\ published[frame[w].payload.client_id] = << >>

\* C26: for every JSON-decodable connection-status frame, whatever the JSON
\* types of Content, dispatchers, dispatchers.catalog and the catalog fields,
\* the handler completes the handshake or drops the frame: the process never
\* panics, and in particular not after Register was called for the frame.
C26_NeverPanics ==
    /\ ~crashed
    /\ \A w \in Workers :
        (frame[w].id \in Delivered /\ CallsOf(frame[w].id, "register") = 1) => pc[w] # "panic"

====
